---- MODULE Spec2Model ----
(***************************************************************************)
(* Model of the kernel's text I/O: the text layout conversion              *)
(* (io/stdout/structs.rs), the VGA buffer writer (io/stdout/mod.rs) and    *)
(* the colour packing (io/stdout/colors.rs), the PS/2 keyboard driver      *)
(* (io/stdin/keyboard.rs), the text cursor (io/stdout/mod.rs) and the      *)
(* kernel's main loop (main.rs).                                           *)
(***************************************************************************)
EXTENDS Integers, Sequences, FiniteSets, TLC

VARIABLES
    pc,               \* which function the single execution context is in
    buffer,           \* the input bytes: new_string / chars_from_string argument,
                      \* the text given to the cursors, the scancodes the data
                      \* port returns to the main loop
    color,            \* ... the colour byte
    start_x,          \* ... the starting column
    start_y,          \* ... the starting row
    overflow_checks,  \* build profile: TRUE = u8 overflow panics, FALSE = it wraps
    idx,              \* 1-based index of the next byte the running loop takes
    position,         \* the running conversion's TextPosition
    chars,            \* new_string's heapless::Vec of records
    lazy_out,         \* the records chars_from_string's iterator has yielded
    eager_done,       \* new_string has returned
    lazy_done,        \* chars_from_string's iterator is exhausted
    vga,              \* the memory-mapped VGA buffer, offset -> byte
    syschar,          \* write_char_at's argument in the last call
    last_write,       \* the offsets the last write_char_at stored to, in order
    foreground,       \* make_color / make_color_safe argument
    background,       \* make_color / make_color_safe argument
    color_byte,       \* the byte the last packing function returned
    color_fn,         \* the packing function that returned it
    nibbles,          \* <<get_foreground(color_byte), get_background(color_byte)>> once read
    kb_op,            \* the keyboard driver function that returned last
    timeout,          \* the running handshake wait's iteration counter
    last_status,      \* the status byte read last
    port_log,         \* the current call's port accesses, in order (a wait's
                      \* status reads are counted by timeout, not logged)
    scancode,         \* what read_scancode returned: <<>> is None, <<b>> is Some(b)
    polled,           \* what poll_keyboard returned: <<>> is None, <<c>> is Some(c)
    config,           \* init_keyboard's local: the configuration byte it read
    text_cursor,      \* a TextCursor: [x, y, color]
    loop_cursor,      \* the main loop's CursorPosition: [x, y]
    cursor_fn,        \* the TextCursor function the input is given to
    loop_trace,       \* per input handled by the main loop's cursor: what was
                      \* written and where the cursor went
    cursor_trace,     \* the same per input byte given to the TextCursor
    background_color, \* clear_screen's argument
    clear_x,          \* clear_screen's inner loop counter
    clear_y           \* clear_screen's outer loop counter

vars == <<pc, buffer, color, start_x, start_y, overflow_checks, idx, position,
          chars, lazy_out, eager_done, lazy_done, vga, syschar, last_write,
          foreground, background, color_byte, color_fn, nibbles,
          kb_op, timeout, last_status, port_log, scancode, polled, config,
          text_cursor, loop_cursor, cursor_fn, loop_trace, cursor_trace,
          background_color, clear_x, clear_y>>

layout_vars == <<buffer, color, start_x, start_y, overflow_checks, idx, position,
                 chars, lazy_out, eager_done, lazy_done>>
video_vars == <<vga, syschar, last_write>>
color_vars == <<foreground, background, color_byte, color_fn, nibbles>>
keyboard_vars == <<kb_op, timeout, last_status, port_log, scancode, polled, config>>
screen_vars == <<text_cursor, loop_cursor, cursor_fn, loop_trace, cursor_trace,
                 background_color, clear_x, clear_y>>

----------------------------------------------------------------------------
(* Program constants *)

VGA_WIDTH == 80
VGA_HEIGHT == 25
VGA_BUFFER_SIZE == VGA_WIDTH * VGA_HEIGHT * 2
\* heapless::Vec<Self, 2000>
CAPACITY == 2000
\* `for _ in 0..4`
TAB_WIDTH == 4
\* number of values of a u8 field
U8_MODULUS == 256
U8 == 0 .. (U8_MODULUS - 1)

LF == 10
CR == 13
TAB == 9
SPACE == 32
\* u8::is_ascii_graphic: b'!' ..= b'~'
GRAPHIC_FIRST == 33
GRAPHIC_LAST == 126

\* io/stdout/colors.rs
BLACK == 0
LIGHT_GRAY == 7
\* the mask 0x0F and the shift 4 of the colour byte, and the bound 0xF of a colour
NIBBLE_MASK == 15
NIBBLE_SHIFT == 4
MAX_COLOR == 15

----------------------------------------------------------------------------
(* Bounds of the model *)

\* longest input enumerated exhaustively over Alphabet
MaxLen == 3

----------------------------------------------------------------------------
(* io/stdout/structs.rs *)

SysPrintableChar_new(character, col, x, y) ==
    [character |-> character, color |-> col, x |-> x, y |-> y]

is_valid_mutant_le(c) == c.x <= VGA_WIDTH /\ c.y <= VGA_HEIGHT
is_valid(c) == c.x < VGA_WIDTH /\ c.y < VGA_HEIGHT

TextPosition_new(x, y) == [x |-> x, y |-> y]

\* `+= 1` on a u8 in a build without overflow checks
add_one(v) == (v + 1) % U8_MODULUS
\* `+= 1` on a u8 panics in a build with overflow checks
add_panics(v) == overflow_checks /\ v + 1 >= U8_MODULUS

advance(p) == [p EXCEPT !.x = add_one(p.x)]
advance_panics(p) == add_panics(p.x)

new_line(p, sx) == [x |-> sx, y |-> add_one(p.y)]
new_line_panics(p) == add_panics(p.y)

carriage_return_mutant_col0(p, sx) == [p EXCEPT !.x = 0]
carriage_return(p, sx) == [p EXCEPT !.x = sx]

is_out_of_bounds_mutant_gt(p) == p.y > VGA_HEIGHT
is_out_of_bounds(p) == p.y >= VGA_HEIGHT

\* heapless::Vec::is_full
\* the capacity 512 of the panic handler's vector in place of 2000
is_full_mutant_512(vec) == Len(vec) = 512
is_full(vec) == Len(vec) = CAPACITY

\* heapless::Vec::push: Err (nothing stored) when the vector is full
push(vec, item) == IF Len(vec) < CAPACITY THEN Append(vec, item) ELSE vec

is_ascii_graphic(byte) == GRAPHIC_FIRST <= byte /\ byte <= GRAPHIC_LAST

\* the guard of the printable arm
is_printable(byte) == is_ascii_graphic(byte) \/ byte = SPACE

\* the wrap condition of the printable arm
needs_wrap_mutant_gt(p) == p.x > VGA_WIDTH
needs_wrap(p) == p.x >= VGA_WIDTH

\* state of new_string's loop after one pass: flow is "next" (go on with the
\* next byte), "break" (leave the loop and return) or "panic" (u8 overflow)
LoopState(p, c, flow) == [position |-> p, chars |-> c, flow |-> flow]

\* the `for _ in 0..4` loop of the tab arm, n passes left
RECURSIVE tab_loop(_, _, _)
tab_loop(ls, n, col) ==
    IF n = 0 \/ ls.flow # "next" THEN ls
    ELSE IF is_out_of_bounds(ls.position) \/ is_full(ls.chars) THEN ls
    ELSE LET pushed == push(ls.chars,
                 SysPrintableChar_new(SPACE, col, ls.position.x, ls.position.y))
         IN  IF advance_panics(ls.position)
             THEN LoopState(ls.position, pushed, "panic")
             ELSE tab_loop(LoopState(advance(ls.position), pushed, "next"), n - 1, col)

\* one pass of new_string's `for &byte in buffer` loop
new_string_body(p, c, byte, col, sx) ==
    IF is_out_of_bounds(p) \/ is_full(c) THEN LoopState(p, c, "break")
    ELSE IF byte = LF THEN
        IF new_line_panics(p) THEN LoopState(p, c, "panic")
        ELSE LoopState(new_line(p, sx), c, "next")
    ELSE IF byte = CR THEN LoopState(carriage_return(p, sx), c, "next")
    ELSE IF byte = TAB THEN tab_loop(LoopState(p, c, "next"), TAB_WIDTH, col)
    ELSE IF is_printable(byte) THEN
        IF needs_wrap(p) /\ new_line_panics(p) THEN LoopState(p, c, "panic")
        ELSE LET q == IF needs_wrap(p) THEN new_line(p, sx) ELSE p
             IN  IF needs_wrap(p) /\ is_out_of_bounds(q) THEN LoopState(q, c, "break")
                 ELSE LET pushed == push(c, SysPrintableChar_new(byte, col, q.x, q.y))
                      IN  IF advance_panics(q) THEN LoopState(q, pushed, "panic")
                          ELSE LoopState(advance(q), pushed, "next")
    ELSE LoopState(p, c, "next")

\* result of one call of chars_from_string's filter_map closure: the new
\* position, the Option it returns (<<>> is None, <<r>> is Some(r)) and
\* whether the call panicked
ClosureResult(p, item, panicked) == [position |-> p, item |-> item, panicked |-> panicked]

\* the closure of chars_from_string, applied to one byte
chars_from_string_closure(p, byte, col, sx) ==
    IF is_out_of_bounds(p) THEN ClosureResult(p, <<>>, FALSE)
    ELSE IF byte = LF THEN
        IF new_line_panics(p) THEN ClosureResult(p, <<>>, TRUE)
        ELSE ClosureResult(new_line(p, sx), <<>>, FALSE)
    ELSE IF byte = CR THEN ClosureResult(carriage_return(p, sx), <<>>, FALSE)
    ELSE IF is_printable(byte) THEN
        IF needs_wrap(p) /\ new_line_panics(p) THEN ClosureResult(p, <<>>, TRUE)
        ELSE LET q == IF needs_wrap(p) THEN new_line(p, sx) ELSE p
             IN  IF needs_wrap(p) /\ is_out_of_bounds(q) THEN ClosureResult(q, <<>>, FALSE)
                 ELSE LET result == SysPrintableChar_new(byte, col, q.x, q.y)
                      IN  IF advance_panics(q) THEN ClosureResult(q, <<>>, TRUE)
                          ELSE ClosureResult(advance(q), <<result>>, FALSE)
    ELSE ClosureResult(p, <<>>, FALSE)

----------------------------------------------------------------------------
(* Inputs of the conversions *)

\* bytes enumerated in every combination: tab, newline, carriage return, a
\* graphic byte and a byte that is not printable (DEL)
Alphabet == {TAB, LF, CR, 97, 127}

RECURSIVE SeqsUpTo(_)
SeqsUpTo(n) ==
    IF n = 0 THEN {<<>>}
    ELSE LET shorter == SeqsUpTo(n - 1)
         IN  shorter \cup {Append(s, b) : s \in {t \in shorter : Len(t) = n - 1}, b \in Alphabet}

\* w repeated up to n bytes
Repeat(w, n) == [i \in 1 .. n |-> w[((i - 1) % Len(w)) + 1]]

ShortInputs == SeqsUpTo(MaxLen) \cup {<<b>> : b \in U8}
               \cup {<<97, 98, CR, LF, 99, 100>>}

\* starting columns: on the screen, and two from which the u8 column counter
\* overflows (253: during a tab, 255: on the first advance)
ShortStartXs == {0, 2, 79, 253, 255}
\* starting rows: the first and the last of the screen, and the first off it
ShortStartYs == {0, 24, 25}
Colors == {7, 79}

\* inputs long enough to wrap a full row, to overflow the column counter and
\* to fill the vector, a newline from the largest u8 row and a tab two
\* columns before the right edge, each with the starting position it is run
\* from
LongRuns ==
    {<<Repeat(<<97>>, VGA_WIDTH + 1), 0, y>> : y \in {0, 23, 24}}
    \cup {<<Repeat(<<97>>, CAPACITY + 1), 0, 0>>,
          <<Repeat(<<TAB>>, 64), 1, 0>>,
          <<Repeat(<<TAB>>, 501) \o <<97>>, 0, 0>>,
          <<<<97, 97>> \o Repeat(<<TAB, CR>>, 1000) \o <<97>>, 0, 24>>,
          <<<<LF, 97>>, 0, 255>>,
          <<<<TAB, 97>>, 78, 24>>}

LayoutIdle ==
    /\ pc = "idle"
    /\ idx = 0
    /\ position = TextPosition_new(0, 0)
    /\ chars = <<>>
    /\ lazy_out = <<>>
    /\ eager_done = FALSE
    /\ lazy_done = FALSE

VideoIdle ==
    /\ vga = <<>>
    /\ syschar = SysPrintableChar_new(0, 0, 0, 0)
    /\ last_write = <<>>

ColorIdle ==
    /\ foreground = 0
    /\ background = 0
    /\ color_byte = 0
    /\ color_fn = "none"
    /\ nibbles = <<>>

ScreenIdle ==
    /\ text_cursor = [x |-> 0, y |-> 0, color |-> 0]
    /\ loop_cursor = [x |-> 0, y |-> 0]
    /\ cursor_fn = "none"
    /\ loop_trace = <<>>
    /\ cursor_trace = <<>>
    /\ background_color = 0
    /\ clear_x = 0
    /\ clear_y = 0

KeyboardIdle ==
    /\ kb_op = "none"
    /\ timeout = 0
    /\ last_status = 0
    /\ port_log = <<>>
    /\ scancode = <<>>
    /\ polled = <<>>
    /\ config = 0

InitLayout ==
    /\ \/ /\ buffer \in ShortInputs
          /\ start_x \in ShortStartXs
          /\ start_y \in ShortStartYs
          /\ color \in Colors
       \/ /\ \E r \in LongRuns : buffer = r[1] /\ start_x = r[2] /\ start_y = r[3]
          /\ color = 7
    /\ overflow_checks \in BOOLEAN
    /\ LayoutIdle
    /\ VideoIdle
    /\ ColorIdle
    /\ KeyboardIdle
    /\ ScreenIdle

----------------------------------------------------------------------------
(* Actions of the conversions *)

\* new_string is entered: lines 55-56
CallNewString ==
    /\ pc = "idle"
    /\ ~eager_done
    /\ pc' = "new_string"
    /\ chars' = <<>>
    /\ position' = TextPosition_new(start_x, start_y)
    /\ idx' = 1
    /\ UNCHANGED <<buffer, color, start_x, start_y, overflow_checks, lazy_out,
                   eager_done, lazy_done>>
    /\ UNCHANGED <<video_vars, color_vars, keyboard_vars, screen_vars>>

\* one pass of the loop over the bytes
NewStringIter ==
    /\ pc = "new_string"
    /\ idx <= Len(buffer)
    /\ LET ls == new_string_body(position, chars, buffer[idx], color, start_x)
       IN  /\ position' = ls.position
           /\ chars' = ls.chars
           /\ idx' = IF ls.flow = "next" THEN idx + 1 ELSE idx
           /\ pc' = IF ls.flow = "next" THEN "new_string"
                    ELSE IF ls.flow = "break" THEN "idle" ELSE "panic"
           /\ eager_done' = (ls.flow = "break")
    /\ UNCHANGED <<buffer, color, start_x, start_y, overflow_checks, lazy_out, lazy_done>>
    /\ UNCHANGED <<video_vars, color_vars, keyboard_vars, screen_vars>>

\* the loop has taken every byte: `chars` is returned
NewStringReturn ==
    /\ pc = "new_string"
    /\ idx > Len(buffer)
    /\ pc' = "idle"
    /\ eager_done' = TRUE
    /\ UNCHANGED <<buffer, color, start_x, start_y, overflow_checks, idx, position,
                   chars, lazy_out, lazy_done>>
    /\ UNCHANGED <<video_vars, color_vars, keyboard_vars, screen_vars>>

\* chars_from_string is entered and its iterator collected: line 112
CallCharsFromString ==
    /\ pc = "idle"
    /\ ~lazy_done
    /\ pc' = "chars_from_string"
    /\ lazy_out' = <<>>
    /\ position' = TextPosition_new(start_x, start_y)
    /\ idx' = 1
    /\ UNCHANGED <<buffer, color, start_x, start_y, overflow_checks, chars,
                   eager_done, lazy_done>>
    /\ UNCHANGED <<video_vars, color_vars, keyboard_vars, screen_vars>>

\* filter_map hands the next byte to the closure
CharsFromStringIter ==
    /\ pc = "chars_from_string"
    /\ idx <= Len(buffer)
    /\ LET r == chars_from_string_closure(position, buffer[idx], color, start_x)
       IN  /\ position' = r.position
           /\ lazy_out' = lazy_out \o r.item
           /\ idx' = IF r.panicked THEN idx ELSE idx + 1
           /\ pc' = IF r.panicked THEN "panic" ELSE "chars_from_string"
    /\ UNCHANGED <<buffer, color, start_x, start_y, overflow_checks, chars,
                   eager_done, lazy_done>>
    /\ UNCHANGED <<video_vars, color_vars, keyboard_vars, screen_vars>>

\* the underlying slice iterator is exhausted
CharsFromStringEnd ==
    /\ pc = "chars_from_string"
    /\ idx > Len(buffer)
    /\ pc' = "idle"
    /\ lazy_done' = TRUE
    /\ UNCHANGED <<buffer, color, start_x, start_y, overflow_checks, idx, position,
                   chars, lazy_out, eager_done>>
    /\ UNCHANGED <<video_vars, color_vars, keyboard_vars, screen_vars>>

NextLayout ==
    \/ CallNewString
    \/ NewStringIter
    \/ NewStringReturn
    \/ CallCharsFromString
    \/ CharsFromStringIter
    \/ CharsFromStringEnd

SpecLayout == InitLayout /\ [][NextLayout]_vars

----------------------------------------------------------------------------
(* io/stdout/mod.rs: the VGA buffer writer *)

\* `*VGA_BUFFER.add(off) = value`: a store through the raw pointer; an offset
\* outside the buffer does not land in it
store(mem, off, value) == IF off \in DOMAIN mem THEN [mem EXCEPT ![off] = value] ELSE mem

vga_index_mutant_no_cell_size(c) == c.y * VGA_WIDTH + c.x
vga_index(c) == (c.y * VGA_WIDTH + c.x) * 2

\* write_char_at on the buffer mem: the new buffer and the offsets stored to
write_char_at(mem, c) ==
    IF ~is_valid(c) THEN [vga |-> mem, stored |-> <<>>]
    ELSE LET index == vga_index(c)
         IN  IF index + 1 < VGA_BUFFER_SIZE
             THEN [vga |-> store(store(mem, index, c.character), index + 1, c.color),
                   stored |-> <<index, index + 1>>]
             ELSE [vga |-> mem, stored |-> <<>>]

\* records handed to write_char_at: the corners of the screen, the first
\* column and row off it, and the largest u8
VideoXs == {0, 79, 80, 255}
VideoYs == {0, 24, 25, 255}
VideoChars == {65}
VideoColors == {7, 79}
SysChars ==
    {SysPrintableChar_new(ch, col, x, y) :
        ch \in VideoChars, col \in VideoColors, x \in VideoXs, y \in VideoYs}

\* what the buffer holds when the kernel starts: zeroes, or blank cells
InitialBuffers ==
    {[i \in 0 .. (VGA_BUFFER_SIZE - 1) |-> 0],
     [i \in 0 .. (VGA_BUFFER_SIZE - 1) |-> IF i % 2 = 0 THEN SPACE ELSE LIGHT_GRAY]}

Init ==
    /\ pc = "idle"
    /\ vga \in InitialBuffers
    /\ syschar = SysPrintableChar_new(0, 0, 0, 0)
    /\ last_write = <<>>
    /\ buffer = <<>>
    /\ color = 0
    /\ start_x = 0
    /\ start_y = 0
    /\ overflow_checks = FALSE
    /\ idx = 0
    /\ position = TextPosition_new(0, 0)
    /\ chars = <<>>
    /\ lazy_out = <<>>
    /\ eager_done = FALSE
    /\ lazy_done = FALSE
    /\ ColorIdle
    /\ KeyboardIdle
    /\ ScreenIdle

\* a call of write_char_at
WriteCharAt ==
    /\ pc = "idle"
    /\ \E c \in SysChars :
        LET w == write_char_at(vga, c)
        IN  /\ syschar' = c
            /\ vga' = w.vga
            /\ last_write' = w.stored
    /\ UNCHANGED pc
    /\ UNCHANGED <<layout_vars, color_vars, keyboard_vars, screen_vars>>

Next ==
    \/ WriteCharAt

Spec == Init /\ [][Next]_vars

----------------------------------------------------------------------------
(* io/stdout/colors.rs *)

\* the operators &, |, << and >> on u8
RECURSIVE BitAnd(_, _)
BitAnd(a, b) ==
    IF a = 0 \/ b = 0 THEN 0
    ELSE (a % 2) * (b % 2) + 2 * BitAnd(a \div 2, b \div 2)

RECURSIVE BitOr(_, _)
BitOr(a, b) ==
    IF a = 0 THEN b
    ELSE IF b = 0 THEN a
    ELSE (IF a % 2 = 1 \/ b % 2 = 1 THEN 1 ELSE 0) + 2 * BitOr(a \div 2, b \div 2)

Shl(a, n) == (a * (2 ^ n)) % U8_MODULUS
Shr(a, n) == a \div (2 ^ n)

make_color_mutant_no_shift(fg, bg) == BitOr(BitAnd(fg, NIBBLE_MASK), BitAnd(bg, NIBBLE_MASK))
make_color(fg, bg) ==
    BitOr(BitAnd(fg, NIBBLE_MASK), Shl(BitAnd(bg, NIBBLE_MASK), NIBBLE_SHIFT))

get_foreground(cb) == BitAnd(cb, NIBBLE_MASK)

get_background(cb) == BitAnd(Shr(cb, NIBBLE_SHIFT), NIBBLE_MASK)

is_valid_color(c) == c <= MAX_COLOR

make_color_safe_mutant_masks(fg, bg) == make_color(fg, bg)
make_color_safe(fg, bg) ==
    LET safe_fg == IF is_valid_color(fg) THEN fg ELSE LIGHT_GRAY
        safe_bg == IF is_valid_color(bg) THEN bg ELSE BLACK
    IN  make_color(safe_fg, safe_bg)

InitColor ==
    /\ pc = "idle"
    /\ foreground \in U8
    /\ background \in U8
    /\ color_byte = 0
    /\ color_fn = "none"
    /\ nibbles = <<>>
    /\ buffer = <<>>
    /\ color = 0
    /\ start_x = 0
    /\ start_y = 0
    /\ overflow_checks = FALSE
    /\ idx = 0
    /\ position = TextPosition_new(0, 0)
    /\ chars = <<>>
    /\ lazy_out = <<>>
    /\ eager_done = FALSE
    /\ lazy_done = FALSE
    /\ VideoIdle
    /\ KeyboardIdle
    /\ ScreenIdle

\* a call of make_color
MakeColor ==
    /\ color_fn = "none"
    /\ color_byte' = make_color(foreground, background)
    /\ color_fn' = "make_color"
    /\ UNCHANGED <<pc, foreground, background, nibbles>>
    /\ UNCHANGED <<layout_vars, video_vars, keyboard_vars, screen_vars>>

\* a call of make_color_safe
MakeColorSafe ==
    /\ color_fn = "none"
    /\ color_byte' = make_color_safe(foreground, background)
    /\ color_fn' = "make_color_safe"
    /\ UNCHANGED <<pc, foreground, background, nibbles>>
    /\ UNCHANGED <<layout_vars, video_vars, keyboard_vars, screen_vars>>

\* calls of get_foreground and get_background on the packed byte
GetNibbles ==
    /\ color_fn # "none"
    /\ nibbles = <<>>
    /\ nibbles' = <<get_foreground(color_byte), get_background(color_byte)>>
    /\ UNCHANGED <<pc, foreground, background, color_byte, color_fn>>
    /\ UNCHANGED <<layout_vars, video_vars, keyboard_vars, screen_vars>>

NextColor ==
    \/ MakeColor
    \/ MakeColorSafe
    \/ GetNibbles

SpecColor == InitColor /\ [][NextColor]_vars

----------------------------------------------------------------------------
(* io/stdin/keyboard.rs *)

DATA == 96                   \* ports::DATA, 0x60
STATUS_CMD == 100            \* ports::STATUS_CMD, 0x64
OUTPUT_BUFFER_FULL == 1      \* status_bits::OUTPUT_BUFFER_FULL
INPUT_BUFFER_FULL == 2       \* status_bits::INPUT_BUFFER_FULL
READ_CONFIG == 32            \* commands::READ_CONFIG, 0x20
WRITE_CONFIG == 96           \* commands::WRITE_CONFIG, 0x60
ENABLE_KEYBOARD == 174       \* commands::ENABLE_KEYBOARD, 0xAE
SPIN_CAP == 1000000          \* the waits' iteration cap
CONFIG_SET_BIT == 1          \* init_keyboard sets this configuration bit
CONFIG_CLEAR_BIT == 32       \* init_keyboard clears this configuration bit, 0x20
KEY_RELEASE_BIT == 128       \* poll_keyboard drops scancodes with this bit, 0x80
SCANCODE_MAP_LEN == 256      \* SCANCODE_MAP's length

\* a port access: an `in` of read_port or an `out` of write_port
PortRead(port, value) == [dir |-> "in", port |-> port, value |-> value]
PortWrite(port, value) == [dir |-> "out", port |-> port, value |-> value]

\* !b on a u8
BitNot(b) == (U8_MODULUS - 1) - b

\* is_output_ready and is_input_ready, on the status byte their read_port returned
is_output_ready(status) == BitAnd(status, OUTPUT_BUFFER_FULL) # 0
is_input_ready(status) == BitAnd(status, INPUT_BUFFER_FULL) = 0

\* the waits' loop condition, ready being what is_input_ready or
\* is_output_ready returned in this evaluation
wait_continues_mutant_no_cap(ready, t) == ~ready
wait_continues(ready, t) == ~ready /\ t < SPIN_CAP

\* read_scancode: status is what the status port returns, data what the data
\* port returns if it is read
read_scancode_mutant_reads_first(status, data) ==
    [value |-> IF is_output_ready(status) THEN <<data>> ELSE <<>>,
     log |-> <<PortRead(DATA, data), PortRead(STATUS_CMD, status)>>]
read_scancode(status, data) ==
    IF is_output_ready(status)
    THEN [value |-> <<data>>,
          log |-> <<PortRead(STATUS_CMD, status), PortRead(DATA, data)>>]
    ELSE [value |-> <<>>, log |-> <<PortRead(STATUS_CMD, status)>>]

\* the entries SCANCODE_MAP's initialiser sets: <<scancode, character>>
ScancodeEntries ==
    {<<2, 49>>, <<3, 50>>, <<4, 51>>, <<5, 52>>, <<6, 53>>,
     <<7, 54>>, <<8, 55>>, <<9, 56>>, <<10, 57>>, <<11, 48>>,
     <<16, 113>>, <<17, 119>>, <<18, 101>>, <<19, 114>>, <<20, 116>>,
     <<21, 121>>, <<22, 117>>, <<23, 105>>, <<24, 111>>, <<25, 112>>,
     <<30, 97>>, <<31, 115>>, <<32, 100>>, <<33, 102>>, <<34, 103>>,
     <<35, 104>>, <<36, 106>>, <<37, 107>>, <<38, 108>>,
     <<44, 122>>, <<45, 120>>, <<46, 99>>, <<47, 118>>, <<48, 98>>,
     <<49, 110>>, <<50, 109>>,
     <<57, SPACE>>, <<28, LF>>}

MapFrom(entries) ==
    [i \in 0 .. SCANCODE_MAP_LEN - 1 |->
        IF \E e \in entries : e[1] = i
        THEN <<(CHOOSE e \in entries : e[1] = i)[2]>>
        ELSE <<>>]

SCANCODE_MAP_mutant_zero_key == MapFrom({IF e[1] = 11 THEN <<11, 58>> ELSE e : e \in ScancodeEntries})
SCANCODE_MAP == MapFrom(ScancodeEntries)

\* SCANCODE_MAP.get(scancode as usize).copied().flatten()
scancode_to_char(code) ==
    IF code \in DOMAIN SCANCODE_MAP THEN SCANCODE_MAP[code] ELSE <<>>

poll_keyboard(status, data) ==
    LET r == read_scancode(status, data)
    IN  [value |-> IF r.value # <<>> /\ BitAnd(r.value[1], KEY_RELEASE_BIT) = 0
                   THEN scancode_to_char(r.value[1])
                   ELSE <<>>,
         log |-> r.log]

\* (config | 0x01) & !0x20
new_config_mutant_sets_both(c) == BitOr(BitOr(c, CONFIG_SET_BIT), CONFIG_CLEAR_BIT)
new_config(c) == BitAnd(BitOr(c, CONFIG_SET_BIT), BitNot(CONFIG_CLEAR_BIT))

\* iterations of a wait stepped one by one at each end of the counter's range
MaxSpinSteps == 2

\* the status bytes the controller returns: the four values of the two
\* handshake bits, two of them with the other six bits clear and two with
\* them set
StatusBytes == {1, 2, 252, 255}

\* the iterations one step of a wait stands for: one, except that the
\* iterations between the two stepped ends, during all of which the awaited
\* condition is not observed, are taken together
SpinRun(t) == IF t = MaxSpinSteps THEN SPIN_CAP - 2 * MaxSpinSteps ELSE 1

\* where init_keyboard is: inside the wait of one of its four
\* send_command / send_data calls, or inside its wait_for_output_ready
InputWaits == {"send_enable", "send_read_config", "send_write_config", "send_new_config"}
Waits == InputWaits \cup {"wait_config"}

\* the write_port that follows the wait in each send_command / send_data
SendAccess(p, cfg) ==
    CASE p = "send_enable" -> PortWrite(STATUS_CMD, ENABLE_KEYBOARD)
      [] p = "send_read_config" -> PortWrite(STATUS_CMD, READ_CONFIG)
      [] p = "send_write_config" -> PortWrite(STATUS_CMD, WRITE_CONFIG)
      [] p = "send_new_config" -> PortWrite(DATA, new_config(cfg))

AfterSend(p) ==
    CASE p = "send_enable" -> "send_read_config"
      [] p = "send_read_config" -> "wait_config"
      [] p = "send_write_config" -> "send_new_config"
      [] p = "send_new_config" -> "idle"

LayoutUnused ==
    /\ buffer = <<>>
    /\ color = 0
    /\ start_x = 0
    /\ start_y = 0
    /\ overflow_checks = FALSE
    /\ idx = 0
    /\ position = TextPosition_new(0, 0)
    /\ chars = <<>>
    /\ lazy_out = <<>>
    /\ eager_done = FALSE
    /\ lazy_done = FALSE

InitKeyboardDriver ==
    /\ pc = "start"
    /\ KeyboardIdle
    /\ ScreenIdle
    /\ LayoutUnused
    /\ VideoIdle
    /\ ColorIdle

\* _start calls init_keyboard, which calls send_command(ENABLE_KEYBOARD)
CallInitKeyboard ==
    /\ pc = "start"
    /\ pc' = "send_enable"
    /\ timeout' = 0
    /\ port_log' = <<>>
    /\ UNCHANGED <<kb_op, last_status, scancode, polled, config>>
    /\ UNCHANGED <<layout_vars, video_vars, color_vars, screen_vars>>

\* wait_for_input_ready: the loop body runs
WaitForInputReadySpin ==
    /\ pc \in InputWaits
    /\ \E status \in StatusBytes :
        /\ wait_continues(is_input_ready(status), timeout)
        /\ last_status' = status
    /\ timeout' = timeout + SpinRun(timeout)
    /\ UNCHANGED <<pc, kb_op, port_log, scancode, polled, config>>
    /\ UNCHANGED <<layout_vars, video_vars, color_vars, screen_vars>>

\* wait_for_input_ready returns and send_command / send_data writes the port
SendWrite ==
    /\ pc \in InputWaits
    /\ \E status \in StatusBytes :
        /\ ~wait_continues(is_input_ready(status), timeout)
        /\ last_status' = status
    /\ port_log' = Append(port_log, SendAccess(pc, config))
    /\ pc' = AfterSend(pc)
    /\ timeout' = 0
    /\ kb_op' = IF pc = "send_new_config" THEN "init_keyboard" ELSE kb_op
    /\ config' = IF pc = "send_new_config" THEN 0 ELSE config
    /\ UNCHANGED <<scancode, polled>>
    /\ UNCHANGED <<layout_vars, video_vars, color_vars, screen_vars>>

\* wait_for_output_ready: the loop body runs
WaitForOutputReadySpin ==
    /\ pc = "wait_config"
    /\ \E status \in StatusBytes :
        /\ wait_continues(is_output_ready(status), timeout)
        /\ last_status' = status
    /\ timeout' = timeout + SpinRun(timeout)
    /\ UNCHANGED <<pc, kb_op, port_log, scancode, polled, config>>
    /\ UNCHANGED <<layout_vars, video_vars, color_vars, screen_vars>>

\* wait_for_output_ready returns and init_keyboard reads the data port
ReadConfig ==
    /\ pc = "wait_config"
    /\ \E status \in StatusBytes :
        /\ ~wait_continues(is_output_ready(status), timeout)
        /\ last_status' = status
    /\ \E data \in U8 :
        /\ config' = data
        /\ port_log' = Append(port_log, PortRead(DATA, data))
    /\ pc' = "send_write_config"
    /\ timeout' = 0
    /\ UNCHANGED <<kb_op, scancode, polled>>
    /\ UNCHANGED <<layout_vars, video_vars, color_vars, screen_vars>>

NextKeyboard ==
    \/ CallInitKeyboard
    \/ WaitForInputReadySpin
    \/ SendWrite
    \/ WaitForOutputReadySpin
    \/ ReadConfig

\* the processor keeps executing the single execution context's next
\* instruction: nothing else is scheduled
SpecKeyboard == InitKeyboardDriver /\ [][NextKeyboard]_vars /\ WF_vars(NextKeyboard)

\* the driver once init_keyboard has returned, where the main loop polls
InitPoll ==
    /\ pc = "idle"
    /\ KeyboardIdle
    /\ ScreenIdle
    /\ LayoutUnused
    /\ VideoIdle
    /\ ColorIdle

\* a call of read_scancode
ReadScancode ==
    /\ pc = "idle"
    /\ \E status \in StatusBytes, data \in U8 :
        LET r == read_scancode(status, data)
        IN  /\ scancode' = r.value
            /\ port_log' = r.log
            /\ last_status' = status
    /\ kb_op' = "read_scancode"
    /\ polled' = <<>>
    /\ UNCHANGED <<pc, timeout, config>>
    /\ UNCHANGED <<layout_vars, video_vars, color_vars, screen_vars>>

\* a call of poll_keyboard
PollKeyboard ==
    /\ pc = "idle"
    /\ \E status \in StatusBytes, data \in U8 :
        LET r == poll_keyboard(status, data)
        IN  /\ polled' = r.value
            /\ port_log' = r.log
            /\ last_status' = status
    /\ kb_op' = "poll_keyboard"
    /\ scancode' = <<>>
    /\ UNCHANGED <<pc, timeout, config>>
    /\ UNCHANGED <<layout_vars, video_vars, color_vars, screen_vars>>

NextPoll ==
    \/ ReadScancode
    \/ PollKeyboard

SpecPoll == InitPoll /\ [][NextPoll]_vars

----------------------------------------------------------------------------
(* io/stdout/mod.rs: TextCursor *)

TextCursor_new(x, y, col) == [x |-> x, y |-> y, color |-> col]

TextCursor_is_valid_position(c) == c.x < VGA_WIDTH /\ c.y < VGA_HEIGHT

\* new_line: the u8 row wraps where the build does not check overflow
TextCursor_new_line_mutant_no_clamp(c) == [c EXCEPT !.x = 0, !.y = add_one(c.y)]
TextCursor_new_line(c) ==
    LET y1 == add_one(c.y)
    IN  [c EXCEPT !.x = 0, !.y = IF y1 >= VGA_HEIGHT THEN VGA_HEIGHT - 1 ELSE y1]
TextCursor_new_line_panics(c) == add_panics(c.y)

TextCursor_carriage_return(c) == [c EXCEPT !.x = 0]

TextCursor_advance_mutant_wraps_late(c) ==
    LET c1 == [c EXCEPT !.x = add_one(c.x)]
    IN  IF c1.x > VGA_WIDTH THEN TextCursor_new_line(c1) ELSE c1
TextCursor_advance(c) ==
    LET c1 == [c EXCEPT !.x = add_one(c.x)]
    IN  IF c1.x >= VGA_WIDTH THEN TextCursor_new_line(c1) ELSE c1
TextCursor_advance_panics(c) ==
    \/ add_panics(c.x)
    \/ add_one(c.x) >= VGA_WIDTH /\ TextCursor_new_line_panics(c)

TextCursor_set_color(c, col) == [c EXCEPT !.color = col]

\* the outcome of a TextCursor call or of a handle_character_input call: the
\* cursor, the buffer, the offsets stored to, the records handed to
\* write_char_at and whether the call panicked
CursorResult(c, mem, stored, records, panics) ==
    [cursor |-> c, vga |-> mem, stored |-> stored, records |-> records, panics |-> panics]

write_char(c, mem, character) ==
    IF TextCursor_is_valid_position(c)
    THEN LET rec == SysPrintableChar_new(character, c.color, c.x, c.y)
             w == write_char_at(mem, rec)
         IN  IF TextCursor_advance_panics(c)
             THEN CursorResult(c, w.vga, w.stored, <<rec>>, TRUE)
             ELSE CursorResult(TextCursor_advance(c), w.vga, w.stored, <<rec>>, FALSE)
    ELSE CursorResult(c, mem, <<>>, <<>>, FALSE)

\* one pass of write_string's loop, on the byte it takes
write_string_byte(c, mem, byte) ==
    CASE byte = LF ->
            IF TextCursor_new_line_panics(c)
            THEN CursorResult([c EXCEPT !.x = 0], mem, <<>>, <<>>, TRUE)
            ELSE CursorResult(TextCursor_new_line(c), mem, <<>>, <<>>, FALSE)
      [] byte = CR -> CursorResult(TextCursor_carriage_return(c), mem, <<>>, <<>>, FALSE)
      [] OTHER -> write_char(c, mem, byte)

----------------------------------------------------------------------------
(* main.rs: CursorPosition and handle_character_input *)

LAST_ROW == 24               \* move_to_next_line clamps to this row
ROW_LIMIT == 25              \* ... when the row reaches this
ASCII_LIMIT == 128           \* char::is_ascii: code points below this
DEL == 127                   \* char::is_control: the code points below SPACE and
CONTROL_LAST == 159          \* ... those from DEL to this one

CursorPosition_new(x, y) == [x |-> x, y |-> y]

move_to_next_line_mutant_keeps_column(c) ==
    [x |-> c.x, y |-> IF c.y + 1 >= ROW_LIMIT THEN LAST_ROW ELSE c.y + 1]
move_to_next_line(c) ==
    [x |-> 0, y |-> IF c.y + 1 >= ROW_LIMIT THEN LAST_ROW ELSE c.y + 1]

advance_cursor_mutant_skips_column(c) ==
    LET c1 == [c EXCEPT !.x = c.x + 2]
    IN  IF c1.x >= VGA_WIDTH THEN move_to_next_line(c1) ELSE c1
advance_cursor(c) ==
    LET c1 == [c EXCEPT !.x = c.x + 1]
    IN  IF c1.x >= VGA_WIDTH THEN move_to_next_line(c1) ELSE c1

is_within_bounds(c) == c.x < VGA_WIDTH /\ c.y < ROW_LIMIT

is_ascii(ch) == ch < ASCII_LIMIT
is_control(ch) == ch < SPACE \/ (ch >= DEL /\ ch <= CONTROL_LAST)

\* `as u8`
as_u8(v) == v % U8_MODULUS

handle_character_input(character, c, mem) ==
    CASE character = LF -> CursorResult(move_to_next_line(c), mem, <<>>, <<>>, FALSE)
      [] character # LF /\ is_ascii(character) /\ ~is_control(character) ->
            IF is_within_bounds(c)
            THEN LET rec == SysPrintableChar_new(as_u8(character), LIGHT_GRAY,
                                                 as_u8(c.x), as_u8(c.y))
                     w == write_char_at(mem, rec)
                 IN  CursorResult(advance_cursor(c), w.vga, w.stored, <<rec>>, FALSE)
            ELSE CursorResult(c, mem, <<>>, <<>>, FALSE)
      [] OTHER -> CursorResult(c, mem, <<>>, <<>>, FALSE)

\* what a cursor's trace records for one input: the records written and
\* the position the cursor is left at
TraceEntry(r) == [records |-> r.records, x |-> r.cursor.x, y |-> r.cursor.y]

\* the inputs of the cursors: newline, carriage return, a graphic character,
\* a control character other than those two, and a byte that is not ASCII
CursorAlphabet == {LF, CR, 97, DEL, 200}

\* sequences over S of length at most n
RECURSIVE SeqsOver(_, _)
SeqsOver(S, n) ==
    IF n = 0 THEN {<<>>}
    ELSE LET shorter == SeqsOver(S, n - 1)
         IN  shorter \cup {Append(s, b) : s \in {t \in shorter : Len(t) = n - 1}, b \in S}

\* longest input text enumerated in every combination
MaxText == 2

\* where the cursors are created: the corners of the screen and the cell
\* before the last, the first column and the first row off the screen, and
\* the largest u8 row
CursorStarts ==
    {<<0, 0>>, <<79, 0>>, <<78, 24>>, <<79, 24>>, <<80, 0>>, <<0, 25>>, <<0, 255>>, <<255, 255>>}

InitCursor ==
    /\ \/ /\ buffer \in SeqsOver(CursorAlphabet, MaxText)
          /\ \E s \in CursorStarts : start_x = s[1] /\ start_y = s[2]
          /\ color \in Colors
          /\ overflow_checks \in BOOLEAN
       \/ /\ buffer \in {<<b>> : b \in U8}
          /\ start_x = 79
          /\ start_y = 24
          /\ color = LIGHT_GRAY
          /\ overflow_checks = TRUE
    /\ cursor_fn \in {"write_char", "write_string"}
    /\ pc = "loop_cursor"
    /\ idx = 1
    /\ loop_cursor = CursorPosition_new(start_x, start_y)
    /\ text_cursor = TextCursor_new(start_x, start_y, color)
    /\ loop_trace = <<>>
    /\ cursor_trace = <<>>
    /\ vga = [off \in 0 .. VGA_BUFFER_SIZE - 1 |-> 0]
    /\ syschar = SysPrintableChar_new(0, 0, 0, 0)
    /\ last_write = <<>>
    /\ position = TextPosition_new(0, 0)
    /\ chars = <<>>
    /\ lazy_out = <<>>
    /\ eager_done = FALSE
    /\ lazy_done = FALSE
    /\ background_color = 0
    /\ clear_x = 0
    /\ clear_y = 0
    /\ ColorIdle
    /\ KeyboardIdle

\* what every cursor step leaves alone
CursorFrame ==
    /\ UNCHANGED <<buffer, color, start_x, start_y, overflow_checks, position, chars,
                   lazy_out, eager_done, lazy_done>>
    /\ UNCHANGED <<cursor_fn, background_color, clear_x, clear_y>>
    /\ UNCHANGED <<color_vars, keyboard_vars>>

\* a call of handle_character_input on the next character
HandleCharacterInput ==
    /\ pc = "loop_cursor"
    /\ idx <= Len(buffer)
    /\ LET r == handle_character_input(buffer[idx], loop_cursor, vga)
       IN  /\ loop_cursor' = r.cursor
           /\ vga' = r.vga
           /\ last_write' = r.stored
           /\ syschar' = IF r.records = <<>> THEN syschar ELSE r.records[1]
           /\ loop_trace' = Append(loop_trace, TraceEntry(r))
    /\ idx' = idx + 1
    /\ UNCHANGED <<pc, text_cursor, cursor_trace>>
    /\ CursorFrame

\* the same characters are then given to the TextCursor
StartTextCursor ==
    /\ pc = "loop_cursor"
    /\ idx > Len(buffer)
    /\ pc' = "text_cursor"
    /\ idx' = 1
    /\ last_write' = <<>>
    /\ UNCHANGED <<vga, syschar, text_cursor, loop_cursor, loop_trace, cursor_trace>>
    /\ CursorFrame

\* a call of TextCursor::write_char on the next byte
WriteChar ==
    /\ pc = "text_cursor"
    /\ cursor_fn = "write_char"
    /\ idx <= Len(buffer)
    /\ LET r == write_char(text_cursor, vga, buffer[idx])
       IN  /\ text_cursor' = r.cursor
           /\ vga' = r.vga
           /\ last_write' = r.stored
           /\ syschar' = IF r.records = <<>> THEN syschar ELSE r.records[1]
           /\ cursor_trace' = Append(cursor_trace, TraceEntry(r))
           /\ pc' = IF r.panics THEN "panic" ELSE pc
    /\ idx' = idx + 1
    /\ UNCHANGED <<loop_cursor, loop_trace>>
    /\ CursorFrame

\* one pass of the loop of TextCursor::write_string
WriteStringIter ==
    /\ pc = "text_cursor"
    /\ cursor_fn = "write_string"
    /\ idx <= Len(buffer)
    /\ LET r == write_string_byte(text_cursor, vga, buffer[idx])
       IN  /\ text_cursor' = r.cursor
           /\ vga' = r.vga
           /\ last_write' = r.stored
           /\ syschar' = IF r.records = <<>> THEN syschar ELSE r.records[1]
           /\ cursor_trace' = Append(cursor_trace, TraceEntry(r))
           /\ pc' = IF r.panics THEN "panic" ELSE pc
    /\ idx' = idx + 1
    /\ UNCHANGED <<loop_cursor, loop_trace>>
    /\ CursorFrame

\* a call of TextCursor::set_color between two write_char calls
SetColor ==
    /\ pc = "text_cursor"
    /\ cursor_fn = "write_char"
    /\ \E col \in Colors \ {text_cursor.color} :
        text_cursor' = TextCursor_set_color(text_cursor, col)
    /\ UNCHANGED <<pc, idx, vga, syschar, last_write, loop_cursor, loop_trace, cursor_trace>>
    /\ CursorFrame

\* the text is exhausted
TextCursorDone ==
    /\ pc = "text_cursor"
    /\ idx > Len(buffer)
    /\ pc' = "done"
    /\ UNCHANGED <<idx, vga, syschar, last_write, text_cursor, loop_cursor, loop_trace,
                   cursor_trace>>
    /\ CursorFrame

NextCursor ==
    \/ HandleCharacterInput
    \/ StartTextCursor
    \/ WriteChar
    \/ WriteStringIter
    \/ SetColor
    \/ TextCursorDone

SpecCursor == InitCursor /\ [][NextCursor]_vars

----------------------------------------------------------------------------
(* io/stdout/mod.rs: clear_screen *)

\* clear_screen's arguments: black, blue, white and a byte above 15
ClearColors == {0, 1, 15, 116}

InitClear ==
    /\ pc = "clear_screen"
    /\ background_color \in ClearColors
    /\ clear_x = 0
    /\ clear_y = 0
    /\ vga \in InitialBuffers
    /\ syschar = SysPrintableChar_new(0, 0, 0, 0)
    /\ last_write = <<>>
    /\ text_cursor = [x |-> 0, y |-> 0, color |-> 0]
    /\ loop_cursor = [x |-> 0, y |-> 0]
    /\ cursor_fn = "none"
    /\ loop_trace = <<>>
    /\ cursor_trace = <<>>
    /\ LayoutUnused
    /\ ColorIdle
    /\ KeyboardIdle

\* one pass of clear_screen's inner loop, and the step of the loops after it
ClearScreenCell ==
    /\ pc = "clear_screen"
    /\ clear_y < VGA_HEIGHT
    /\ LET char_at_pos == SysPrintableChar_new(SPACE, background_color,
                                               as_u8(clear_x), as_u8(clear_y))
           w == write_char_at(vga, char_at_pos)
       IN  /\ syschar' = char_at_pos
           /\ vga' = w.vga
           /\ last_write' = w.stored
    /\ IF clear_x + 1 < VGA_WIDTH
       THEN clear_x' = clear_x + 1 /\ clear_y' = clear_y
       ELSE clear_x' = 0 /\ clear_y' = clear_y + 1
    /\ UNCHANGED <<pc, background_color, text_cursor, loop_cursor, cursor_fn, loop_trace,
                   cursor_trace>>
    /\ UNCHANGED <<layout_vars, color_vars, keyboard_vars>>

\* the outer loop is exhausted and clear_screen returns
ClearScreenReturn ==
    /\ pc = "clear_screen"
    /\ clear_y >= VGA_HEIGHT
    /\ pc' = "cleared"
    /\ UNCHANGED <<video_vars, screen_vars>>
    /\ UNCHANGED <<layout_vars, color_vars, keyboard_vars>>

NextClear ==
    \/ ClearScreenCell
    \/ ClearScreenReturn

SpecClear == InitClear /\ [][NextClear]_vars

----------------------------------------------------------------------------
(* main.rs: _start *)

START_COLUMN == 1            \* CursorPosition::new(1, 1)
START_ROW == 1

\* the scancodes enumerated in every combination: the make codes of `a` and
\* of Enter, a break code and a make code the table does not map
KeyAlphabet == {30, 28, 158, 1}

\* the bytes the data port returns to the main loop's successive reads: the
\* short streams, each scancode alone, a row of keys long enough to wrap,
\* and Enter down to the last row followed by a row of keys and one more
KeyStreams ==
    SeqsOver(KeyAlphabet, MaxText)
    \cup {<<b>> : b \in U8}
    \cup {Repeat(<<30>>, VGA_WIDTH),
          Repeat(<<28>>, VGA_HEIGHT) \o Repeat(<<57, 30>>, VGA_WIDTH + 2)}

\* the state when init_keyboard has returned and _start has made its cursor
InitMain ==
    /\ pc = "main_loop"
    /\ buffer \in KeyStreams
    /\ idx = 1
    /\ loop_cursor = CursorPosition_new(START_COLUMN, START_ROW)
    /\ vga = [off \in 0 .. VGA_BUFFER_SIZE - 1 |-> 0]
    /\ syschar = SysPrintableChar_new(0, 0, 0, 0)
    /\ last_write = <<>>
    /\ color = 0
    /\ start_x = 0
    /\ start_y = 0
    /\ overflow_checks = FALSE
    /\ position = TextPosition_new(0, 0)
    /\ chars = <<>>
    /\ lazy_out = <<>>
    /\ eager_done = FALSE
    /\ lazy_done = FALSE
    /\ text_cursor = [x |-> 0, y |-> 0, color |-> 0]
    /\ cursor_fn = "none"
    /\ loop_trace = <<>>
    /\ cursor_trace = <<>>
    /\ background_color = 0
    /\ clear_x = 0
    /\ clear_y = 0
    /\ ColorIdle
    /\ KeyboardIdle

\* one pass of _start's loop: poll_keyboard, handle_character_input on what
\* it returned, and the delay. The data port returns the next byte of the
\* stream; once the stream is exhausted the controller reports no output.
MainLoopIter ==
    /\ pc = "main_loop"
    /\ \E status \in StatusBytes :
        /\ idx <= Len(buffer) \/ ~is_output_ready(status)
        /\ LET data == IF idx <= Len(buffer) THEN buffer[idx] ELSE 0
               p == poll_keyboard(status, data)
               r == IF p.value = <<>>
                    THEN CursorResult(loop_cursor, vga, <<>>, <<>>, FALSE)
                    ELSE handle_character_input(p.value[1], loop_cursor, vga)
           IN  /\ last_status' = status
               /\ port_log' = p.log
               /\ polled' = p.value
               /\ idx' = IF Len(p.log) > 1 THEN idx + 1 ELSE idx
               /\ loop_cursor' = r.cursor
               /\ vga' = r.vga
               /\ last_write' = r.stored
               /\ syschar' = IF r.records = <<>> THEN syschar ELSE r.records[1]
    /\ kb_op' = "poll_keyboard"
    /\ UNCHANGED <<pc, timeout, scancode, config>>
    /\ UNCHANGED <<buffer, color, start_x, start_y, overflow_checks, position, chars,
                   lazy_out, eager_done, lazy_done>>
    /\ UNCHANGED <<text_cursor, cursor_fn, loop_trace, cursor_trace, background_color,
                   clear_x, clear_y>>
    /\ UNCHANGED color_vars

NextMain ==
    \/ MainLoopIter

SpecMain == InitMain /\ [][NextMain]_vars

----------------------------------------------------------------------------
(* Properties of the text layout conversion *)

\* a record as the properties write it
Rec(ch, col, x, y) == [character |-> ch, color |-> col, x |-> x, y |-> y]

Printable(b) == (33 <= b /\ b <= 126) \/ b = 32

\* new_string is about to take byte b with room left and the row in bounds
EagerTakes(b) ==
    /\ pc = "new_string"
    /\ idx <= Len(buffer)
    /\ buffer[idx] = b
    /\ position.y < 25
    /\ Len(chars) < 2000

\* chars_from_string's closure is about to take byte b with the row in bounds
LazyTakes(b) ==
    /\ pc = "chars_from_string"
    /\ idx <= Len(buffer)
    /\ buffer[idx] = b
    /\ position.y < 25

\* C1: whenever new_string returned without filling its 2000 records, the
\* records chars_from_string yields for the same bytes, colour and start are
\* the same sequence.
C1_EagerLazyEquivalent ==
    (eager_done /\ lazy_done /\ Len(chars) < 2000) => lazy_out = chars

\* C1, on inputs without a tab byte (the part of the claim the code meets)
C1_EquivalentWithoutTab ==
    (eager_done /\ lazy_done /\ Len(chars) < 2000
        /\ \A i \in DOMAIN buffer : buffer[i] # 9) => lazy_out = chars

\* C2: a printable byte taken by new_string at a column >= 80 first moves the
\* position to the next row and, that row being on the screen, the record is
\* emitted at the starting column of that row; a record chars_from_string
\* yields for such a byte is at that place too; 81 printable bytes from
\* column 0 of a row r < 24 give columns 0..79 of row r and then column 0 of
\* row r+1.
C2_WrapLaw ==
    /\ [][(idx \in DOMAIN buffer /\ Printable(buffer[idx]) /\ position.x >= 80) =>
            /\ (EagerTakes(buffer[idx]) /\ position.y + 1 < 25) =>
                  /\ chars' = Append(chars, Rec(buffer[idx], color, start_x, position.y + 1))
                  /\ position'.y = position.y + 1
            /\ (LazyTakes(buffer[idx]) /\ position.y + 1 < 25) =>
                  /\ lazy_out' \in {lazy_out,
                                    Append(lazy_out, Rec(buffer[idx], color, start_x, position.y + 1))}
                  /\ (pc' = "chars_from_string" =>
                        /\ lazy_out' # lazy_out
                        /\ position'.y = position.y + 1)]_vars
    /\ [](\A r \in 0 .. 23 :
            (eager_done /\ buffer = [i \in 1 .. 81 |-> 97] /\ start_x = 0 /\ start_y = r) =>
              /\ Len(chars) = 81
              /\ \A k \in 1 .. 80 : chars[k] = Rec(97, color, k - 1, r)
              /\ chars[81] = Rec(97, color, 0, r + 1))

C2_Witness ==
    /\ eager_done
    /\ buffer = [i \in 1 .. 81 |-> 97]
    /\ start_x = 0
    /\ start_y = 23
    /\ Len(chars) = 81
    /\ chars[80].x = 79 /\ chars[80].y = 23
    /\ chars[81].x = 0 /\ chars[81].y = 24

\* C3: in both modes a newline byte moves the position to the starting column
\* of the next row, a carriage return moves it to the starting column of the
\* same row, and neither emits a record; a, b, CR, LF, c, d from (2,0) gives
\* a@(2,0), b@(3,0), c@(2,1), d@(3,1).
C3_NewlineCarriageReturn ==
    /\ [][/\ (EagerTakes(10) \/ LazyTakes(10)) =>
                /\ position' = [x |-> start_x, y |-> position.y + 1]
                /\ chars' = chars
                /\ lazy_out' = lazy_out
          /\ (EagerTakes(13) \/ LazyTakes(13)) =>
                /\ position' = [x |-> start_x, y |-> position.y]
                /\ chars' = chars
                /\ lazy_out' = lazy_out]_vars
    /\ []((eager_done /\ buffer = <<97, 98, 13, 10, 99, 100>> /\ start_x = 2 /\ start_y = 0) =>
            chars = <<Rec(97, color, 2, 0), Rec(98, color, 3, 0),
                      Rec(99, color, 2, 1), Rec(100, color, 3, 1)>>)

C3_Witness ==
    /\ eager_done
    /\ buffer = <<97, 98, 13, 10, 99, 100>>
    /\ start_x = 2
    /\ start_y = 0
    /\ Len(chars) = 4
    /\ chars[3].x = 2 /\ chars[3].y = 1

Min(a, b) == IF a <= b THEN a ELSE b

\* C4: a tab byte taken by new_string emits space records at the columns
\* x, x+1, ... from the current column x, 4 of them unless the capacity of
\* 2000 is reached first (the row cannot change during a tab); a single tab
\* from column 0 gives 4 spaces at columns 0, 1, 2, 3 of the starting row.
C4_TabLaw ==
    /\ [][EagerTakes(9) =>
            LET n == Min(4, 2000 - Len(chars))
            IN  chars' = chars \o [k \in 1 .. n |-> Rec(32, color, position.x + k - 1, position.y)]]_vars
    /\ []((eager_done /\ buffer = <<9>> /\ start_x = 0 /\ start_y < 25) =>
            chars = [k \in 1 .. 4 |-> Rec(32, color, k - 1, start_y)])

\* C4, for a tab taken at a column <= 252, where the columns x .. x+3 fit a u8
C4_TabLawBelowOverflow ==
    /\ [][(EagerTakes(9) /\ position.x <= 252) =>
            LET n == Min(4, 2000 - Len(chars))
            IN  chars' = chars \o [k \in 1 .. n |-> Rec(32, color, position.x + k - 1, position.y)]]_vars
    /\ []((eager_done /\ buffer = <<9>> /\ start_x = 0 /\ start_y < 25) =>
            chars = [k \in 1 .. 4 |-> Rec(32, color, k - 1, start_y)])

\* C5: new_string never holds more than 2000 records; once 2000 are held the
\* next pass of the loop returns them, the remaining bytes unread, without a
\* panic; 2001 printable bytes from (0,0) give exactly 2000 records.
C5_CapacityBoundary ==
    /\ [](Len(chars) <= 2000)
    /\ [][(pc = "new_string" /\ idx <= Len(buffer) /\ Len(chars) = 2000) =>
            (pc' = "idle" /\ eager_done' /\ chars' = chars)]_vars
    /\ []((eager_done /\ buffer = [i \in 1 .. 2001 |-> 97] /\ start_x = 0 /\ start_y = 0) =>
            Len(chars) = 2000)

\* new_string returned 2000 records with bytes of its input left unread
C5_Witness ==
    /\ eager_done
    /\ Len(chars) = 2000
    /\ idx <= Len(buffer)
    /\ position.y < 25

\* C6: no record of either mode has a row >= 25; while a conversion's row is
\* >= 25 it stays so and no record is added, whatever bytes remain; a
\* conversion started at a row >= 25 emits nothing.
C6_RowBoundTermination ==
    /\ [](/\ \A i \in DOMAIN chars : chars[i].y < 25
          /\ \A i \in DOMAIN lazy_out : lazy_out[i].y < 25
          /\ (start_y >= 25 => chars = <<>> /\ lazy_out = <<>>))
    /\ [][(pc \in {"new_string", "chars_from_string"} /\ position.y >= 25) =>
            /\ chars' = chars
            /\ lazy_out' = lazy_out
            /\ position'.y >= 25]_vars

\* a newline on row 24 ended an eager conversion that had emitted a record,
\* with bytes left unread
C6_Witness ==
    /\ eager_done
    /\ start_y = 24
    /\ position.y = 25
    /\ idx <= Len(buffer)
    /\ Len(chars) = 1

----------------------------------------------------------------------------
(* Properties of the VGA buffer writer *)

\* C7: is_valid holds of a record exactly when x < 80 and y < 25, and a call
\* of write_char_at with a record that is not valid stores nothing: the
\* buffer after the call is the buffer before it.
C7_InvalidRecordIsNoOp ==
    /\ [](is_valid(syschar) <=> (syschar.x < 80 /\ syschar.y < 25))
    /\ [][(WriteCharAt /\ ~(syschar'.x < 80 /\ syschar'.y < 25)) =>
            (vga' = vga /\ last_write' = <<>>)]_vars

\* the buffer has been written to, and the last call, with a record one
\* column off the screen, stored nothing
C7_Witness ==
    /\ syschar.x = 80
    /\ syschar.y = 0
    /\ last_write = <<>>
    /\ vga[0] = 65
    /\ vga[160] # 65

\* C8: a call of write_char_at with a valid record stores the character at
\* offset (y*80 + x)*2 and the colour at the next offset and changes no other
\* byte; every offset a call stores to is below 4000.
C8_ValidRecordWrite ==
    /\ [][(WriteCharAt /\ syschar'.x < 80 /\ syschar'.y < 25) =>
            LET off == (syschar'.y * 80 + syschar'.x) * 2
            IN  /\ vga' = [vga EXCEPT ![off] = syschar'.character, ![off + 1] = syschar'.color]
                /\ last_write' = <<off, off + 1>>]_vars
    /\ [](\A i \in DOMAIN last_write : 0 <= last_write[i] /\ last_write[i] < 4000)
    /\ [](DOMAIN vga = 0 .. 3999)

\* the last cell of the screen has been written
C8_Witness ==
    /\ syschar = [character |-> 65, color |-> 79, x |-> 79, y |-> 24]
    /\ last_write = <<3998, 3999>>
    /\ vga[3998] = 65
    /\ vga[3999] = 79

----------------------------------------------------------------------------
(* Properties of the colour packing *)

\* C9: for a foreground and a background in 0..15, get_foreground and
\* get_background of the byte make_color returned are that foreground and
\* that background.
C9_ColorRoundTrip ==
    (color_fn = "make_color" /\ nibbles # <<>> /\ foreground <= 15 /\ background <= 15) =>
        nibbles = <<foreground, background>>

C9_Witness ==
    /\ color_fn = "make_color"
    /\ foreground = 7
    /\ background = 12
    /\ color_byte = 199
    /\ nibbles = <<7, 12>>

\* C10: for every 8-bit foreground and background the byte make_color_safe
\* returns has, as low nibble, the foreground when it is <= 15 and else 7
\* (light gray), and as high nibble the background when it is <= 15 and else
\* 0 (black); both nibbles read back <= 15.
C10_SafePacking ==
    (color_fn = "make_color_safe") =>
        /\ color_byte \in 0 .. 255
        /\ color_byte % 16 = (IF foreground <= 15 THEN foreground ELSE 7)
        /\ color_byte \div 16 = (IF background <= 15 THEN background ELSE 0)
        /\ (nibbles # <<>> => nibbles[1] <= 15 /\ nibbles[2] <= 15)

\* out-of-range inputs whose masked nibbles differ from the defaults
C10_Witness ==
    /\ color_fn = "make_color_safe"
    /\ foreground = 31
    /\ background = 200
    /\ color_byte = 7
    /\ nibbles = <<7, 0>>

----------------------------------------------------------------------------
(* Properties of the keyboard driver *)

\* the keys of each run of consecutive scancodes, by their ASCII codes
TopRowKeys == <<113, 119, 101, 114, 116, 121, 117, 105, 111, 112>>
HomeRowKeys == <<97, 115, 100, 102, 103, 104, 106, 107, 108>>
BottomRowKeys == <<122, 120, 99, 118, 98, 110, 109>>

\* the character a make code stands for on the US layout, <<>> for none
KeyTable(s) ==
    CASE s \in 2 .. 10 -> <<48 + (s - 1)>>
      [] s = 11 -> <<48>>
      [] s \in 16 .. 25 -> <<TopRowKeys[s - 15]>>
      [] s \in 30 .. 38 -> <<HomeRowKeys[s - 29]>>
      [] s \in 44 .. 50 -> <<BottomRowKeys[s - 43]>>
      [] s = 57 -> <<32>>
      [] s = 28 -> <<10>>
      [] OTHER -> <<>>

\* C11: poll_keyboard returns a character c exactly when the status byte has
\* bit 0 set, the scancode read has its high bit clear and the table maps the
\* scancode to c; the table maps 0x02-0x0B to 1..9 and 0, 0x10-0x19 to
\* qwertyuiop, 0x1E-0x26 to asdfghjkl, 0x2C-0x32 to zxcvbnm, 0x39 to space,
\* 0x1C to newline and every other scancode to nothing.
C11_PollKeyboardTable ==
    /\ \A s \in U8 : scancode_to_char(s) = KeyTable(s)
    /\ scancode_to_char(30) = <<97>>
    /\ scancode_to_char(158) = <<>>
    /\ scancode_to_char(1) = <<>>
    /\ kb_op = "poll_keyboard" =>
          \A c \in 0 .. 127 :
              polled = <<c>> <=>
                  /\ port_log[1].value % 2 = 1
                  /\ Len(port_log) = 2
                  /\ port_log[2].value < 128
                  /\ KeyTable(port_log[2].value) = <<c>>

C11_Witness ==
    /\ kb_op = "poll_keyboard"
    /\ Len(port_log) = 2
    /\ port_log[2].value = 30
    /\ polled = <<97>>

\* C12: read_scancode reads the status port once; with status bit 0 clear it
\* returns nothing and does not read the data port, with the bit set it reads
\* the data port exactly once and returns that byte; a poll_keyboard call
\* reads the data port at most once.
C12_ReadScancodeNonBlocking ==
    /\ kb_op = "read_scancode" =>
          /\ Len(port_log) >= 1
          /\ port_log[1].dir = "in"
          /\ port_log[1].port = 100
          /\ IF port_log[1].value % 2 = 0
             THEN /\ scancode = <<>>
                  /\ Len(port_log) = 1
             ELSE /\ Len(port_log) = 2
                  /\ port_log[2].dir = "in"
                  /\ port_log[2].port = 96
                  /\ scancode = <<port_log[2].value>>
    /\ kb_op = "poll_keyboard" =>
          /\ Cardinality({i \in DOMAIN port_log : port_log[i].port = 96}) <= 1
          /\ Cardinality({i \in DOMAIN port_log : port_log[i].port = 100}) = 1

C12_Witness ==
    /\ kb_op = "read_scancode"
    /\ port_log = <<PortRead(100, 252)>>
    /\ scancode = <<>>

\* C13: wait_for_input_ready and wait_for_output_ready terminate whatever
\* the status port returns: the wait returns in the step in which the awaited
\* condition is read, the counter never passes 1,000,000 and the wait returns
\* when it has reached it; on return, whether or not the condition was seen,
\* send_command / send_data write their port and init_keyboard reads the
\* data port.
C13_WaitsTerminate ==
    /\ [](timeout <= 1000000)
    /\ [][/\ (pc \in InputWaits /\ ((last_status' \div 2) % 2 = 0 \/ timeout = 1000000)) =>
                /\ pc' = AfterSend(pc)
                /\ Len(port_log') = Len(port_log) + 1
                /\ port_log'[Len(port_log')].dir = "out"
          /\ (pc = "wait_config" /\ (last_status' % 2 = 1 \/ timeout = 1000000)) =>
                /\ pc' = "send_write_config"
                /\ Len(port_log') = Len(port_log) + 1
                /\ port_log'[Len(port_log')] = PortRead(96, config')
          /\ (pc \in Waits /\ pc' = pc) => timeout' > timeout]_vars
    /\ \A w \in Waits : (pc = w) ~> (pc # w)
    /\ [](pc # "panic")

\* the cap was exhausted in send_command(ENABLE_KEYBOARD), and the command
\* was written all the same
C13_Witness ==
    /\ pc = "send_read_config"
    /\ timeout = 0
    /\ (last_status \div 2) % 2 = 1
    /\ port_log = <<PortWrite(100, 174)>>

\* the port accesses of init_keyboard, c being the configuration byte read
InitSequence(c) ==
    <<PortWrite(100, 174), PortWrite(100, 32), PortRead(96, c), PortWrite(100, 96),
      PortWrite(96, c + (IF c % 2 = 0 THEN 1 ELSE 0)
                      - (IF (c \div 32) % 2 = 1 THEN 32 ELSE 0))>>

InitProgress(p) ==
    CASE p = "send_enable" -> 0
      [] p = "send_read_config" -> 1
      [] p = "wait_config" -> 2
      [] p = "send_write_config" -> 3
      [] p = "send_new_config" -> 4

\* C14: init_keyboard accesses the ports in this order: write 0xAE to the
\* command port, write 0x20 to the command port, read the configuration byte
\* c from the data port, write 0x60 to the command port, write to the data
\* port c with bit 0x01 set, bit 0x20 cleared and the other six bits unchanged.
C14_InitPortOrder ==
    LET c == IF Len(port_log) >= 3 THEN port_log[3].value ELSE 0
    IN  /\ pc \in Waits =>
              port_log = SubSeq(InitSequence(c), 1, InitProgress(pc))
        /\ kb_op = "init_keyboard" =>
              /\ port_log = InitSequence(c)
              /\ LET n == port_log[5].value
                 IN  /\ n % 2 = 1
                     /\ (n \div 32) % 2 = 0
                     /\ \A i \in {1, 2, 3, 4, 6, 7} :
                           (n \div (2 ^ i)) % 2 = (c \div (2 ^ i)) % 2

C14_Witness ==
    /\ kb_op = "init_keyboard"
    /\ port_log[3] = PortRead(96, 36)
    /\ port_log[5] = PortWrite(96, 5)

----------------------------------------------------------------------------
(* Properties of the cursors *)

\* the cursors were created on the screen
InBoundsStart == start_x < 80 /\ start_y < 25

\* C15: a cursor created at an in-bounds position stays at 0 <= x < 80 and
\* 0 <= y < 25 through every sequence of its operations: write_char,
\* write_string and set_color of the TextCursor, the handling of any
\* character by the main loop's cursor.
C15_CursorInBounds ==
    InBoundsStart =>
        /\ 0 <= text_cursor.x /\ text_cursor.x < 80
        /\ 0 <= text_cursor.y /\ text_cursor.y < 25
        /\ 0 <= loop_cursor.x /\ loop_cursor.x < 80
        /\ 0 <= loop_cursor.y /\ loop_cursor.y < 25

C15_Witness ==
    /\ start_x = 79
    /\ start_y = 24
    /\ buffer = <<97, LF>>
    /\ cursor_fn = "write_string"
    /\ pc = "done"
    /\ text_cursor.x = 0 /\ text_cursor.y = 24
    /\ loop_cursor = [x |-> 0, y |-> 24]

\* C16: a newline handled by a cursor at row 24, by the main loop's cursor or
\* by the TextCursor in write_string, leaves it at row 24 with column 0: not
\* at row 25, not at row 0, and no cell of the display is changed.
C16_RowClamp ==
    [][/\ (/\ pc = "loop_cursor"
           /\ idx' = idx + 1
           /\ buffer[idx] = 10
           /\ loop_cursor.y = 24) =>
              /\ loop_cursor' = [x |-> 0, y |-> 24]
              /\ vga' = vga
              /\ last_write' = <<>>
       /\ (/\ pc = "text_cursor"
           /\ cursor_fn = "write_string"
           /\ idx' = idx + 1
           /\ buffer[idx] = 10
           /\ text_cursor.y = 24) =>
              /\ text_cursor' = [x |-> 0, y |-> 24, color |-> text_cursor.color]
              /\ vga' = vga
              /\ last_write' = <<>>
              /\ pc' = pc]_vars

C16_Witness ==
    /\ start_x = 78
    /\ start_y = 24
    /\ buffer = <<LF>>
    /\ cursor_fn = "write_string"
    /\ pc = "done"
    /\ text_cursor.x = 0 /\ text_cursor.y = 24
    /\ loop_cursor = [x |-> 0, y |-> 24]
    /\ \A off \in DOMAIN vga : vga[off] = 0

\* C19: given the same newlines and non-control ASCII characters from the
\* same in-bounds position with the same colour, handle_character_input on
\* the main loop's cursor and write_string on a TextCursor go through the
\* same positions and hand the same records to the display.
C19_CursorsEquivalent ==
    (/\ InBoundsStart
     /\ color = 7
     /\ cursor_fn = "write_string"
     /\ \A i \in DOMAIN buffer : buffer[i] = 10 \/ (32 <= buffer[i] /\ buffer[i] <= 126)) =>
        /\ pc # "panic"
        /\ pc = "text_cursor" => cursor_trace = SubSeq(loop_trace, 1, Len(cursor_trace))
        /\ pc = "done" => cursor_trace = loop_trace /\ Len(loop_trace) = Len(buffer)

C19_Witness ==
    /\ start_x = 79
    /\ start_y = 0
    /\ color = 7
    /\ cursor_fn = "write_string"
    /\ buffer = <<LF, 97>>
    /\ pc = "done"
    /\ Len(cursor_trace) = 2
    /\ cursor_trace[2].records = <<SysPrintableChar_new(97, 7, 0, 1)>>
    /\ cursor_trace = loop_trace

\* the next step gives the byte at idx to write_char, directly or from
\* write_string
WriteCharTaken ==
    /\ pc = "text_cursor"
    /\ idx <= Len(buffer)
    /\ idx' = idx + 1
    /\ cursor_fn = "write_char" \/ buffer[idx] \notin {10, 13}

\* the next step is write_string taking the byte b
WriteStringTakes(b) ==
    /\ pc = "text_cursor"
    /\ cursor_fn = "write_string"
    /\ idx <= Len(buffer)
    /\ idx' = idx + 1
    /\ buffer[idx] = b

\* what write_char does to the display and the cursor
WriteCharLaw ==
    LET c == text_cursor
        o == 2 * (80 * c.y + c.x)
    IN  IF c.x < 80 /\ c.y < 25
        THEN /\ last_write' = <<o, o + 1>>
             /\ vga' = [vga EXCEPT ![o] = buffer[idx], ![o + 1] = c.color]
             /\ text_cursor' =
                   [x |-> IF c.x = 79 THEN 0 ELSE c.x + 1,
                    y |-> IF c.x < 79 THEN c.y ELSE IF c.y = 24 THEN 24 ELSE c.y + 1,
                    color |-> c.color]
             /\ pc' = pc
        ELSE /\ last_write' = <<>>
             /\ vga' = vga
             /\ text_cursor' = text_cursor
             /\ pc' = pc

\* C20: write_char on an in-bounds TextCursor writes the one cell at the
\* cursor's position with its colour and then advances the column, going to
\* column 0 of the next row after column 79 and to (0,24) after (79,24);
\* write_char on an out-of-bounds cursor changes neither display nor cursor;
\* in write_string a newline and a carriage return (column 0, same row)
\* change only the cursor and write nothing.
C20_TextCursorWrites ==
    [][/\ WriteCharTaken => WriteCharLaw
       /\ WriteStringTakes(10) =>
             /\ vga' = vga
             /\ last_write' = <<>>
             /\ text_cursor'.x = 0
             /\ text_cursor'.color = text_cursor.color
             /\ pc' = pc
       /\ WriteStringTakes(13) =>
             /\ vga' = vga
             /\ last_write' = <<>>
             /\ text_cursor' = [text_cursor EXCEPT !.x = 0]
             /\ pc' = pc]_vars

\* the same with the newline taken only below the last u8 row
C20_WritesBelowRowOverflow ==
    [][/\ WriteCharTaken => WriteCharLaw
       /\ (WriteStringTakes(10) /\ text_cursor.y < 255) =>
             /\ vga' = vga
             /\ last_write' = <<>>
             /\ text_cursor'.x = 0
             /\ text_cursor'.color = text_cursor.color
             /\ pc' = pc
       /\ WriteStringTakes(13) =>
             /\ vga' = vga
             /\ last_write' = <<>>
             /\ text_cursor' = [text_cursor EXCEPT !.x = 0]
             /\ pc' = pc]_vars

----------------------------------------------------------------------------
(* Properties of clear_screen *)

\* the cells clear_screen has written so far, counted in row-major order
CellsCleared == clear_y * 80 + clear_x

\* C17: clear_screen(bg) with bg in 0..15 writes the cells in row-major
\* order, and every cell it has written, all 2000 on return, holds the space
\* character and a colour byte whose high nibble, the background, is bg.
C17_ClearScreenBackground ==
    background_color <= 15 =>
        /\ \A k \in 0 .. 1999 :
              k < CellsCleared =>
                  /\ vga[2 * k] = 32
                  /\ vga[2 * k + 1] \div 16 = background_color
        /\ CellsCleared > 0 =>
              last_write = <<2 * (CellsCleared - 1), 2 * (CellsCleared - 1) + 1>>
        /\ pc = "cleared" => CellsCleared = 2000

\* what clear_screen does: the argument is the whole colour byte of every cell
C17_ClearScreenColorByte ==
    /\ \A k \in 0 .. 1999 :
          k < CellsCleared =>
              /\ vga[2 * k] = 32
              /\ vga[2 * k + 1] = background_color
    /\ CellsCleared > 0 =>
          last_write = <<2 * (CellsCleared - 1), 2 * (CellsCleared - 1) + 1>>
    /\ pc = "cleared" => CellsCleared = 2000

----------------------------------------------------------------------------
(* Properties of the main loop *)

\* the row below row y, clamped to the last row
RowBelow(y) == IF y >= 24 THEN 24 ELSE y + 1

\* C18: an iteration of the main loop polls at most one character. A polled
\* newline moves the loop's cursor to column 0 of the next row, clamped at
\* row 24, and changes no cell; any other polled character is written in
\* light gray at the cursor's position and the cursor advances one column,
\* to column 0 of the next row after column 79; when nothing is polled the
\* cursor and the display are unchanged. The cursor starts at (1,1) and is
\* always in bounds, so no polled character is dropped.
C18_MainLoopStep ==
    /\ loop_cursor = [x |-> 1, y |-> 1]
    /\ [](loop_cursor.x < 80 /\ loop_cursor.y < 25)
    /\ [][LET c == loop_cursor
              o == 2 * (80 * c.y + c.x)
          IN  /\ idx' \in {idx, idx + 1}
              /\ Len(polled') <= 1
              /\ Cardinality({i \in DOMAIN port_log' : port_log'[i].port = 96}) = idx' - idx
              /\ polled' = <<10>> =>
                    /\ loop_cursor' = [x |-> 0, y |-> RowBelow(c.y)]
                    /\ vga' = vga
              /\ (polled' # <<>> /\ polled' # <<10>>) =>
                    /\ 32 <= polled'[1] /\ polled'[1] <= 126
                    /\ vga' = [vga EXCEPT ![o] = polled'[1], ![o + 1] = 7]
                    /\ loop_cursor' = IF c.x = 79
                                      THEN [x |-> 0, y |-> RowBelow(c.y)]
                                      ELSE [x |-> c.x + 1, y |-> c.y]
              /\ polled' = <<>> =>
                    /\ loop_cursor' = loop_cursor
                    /\ vga' = vga]_vars

\* the 79th key of a row of keys typed from (1,1) was written at the end of
\* row 1 and the cursor went to the start of row 2
C18_Witness ==
    /\ loop_cursor = [x |-> 0, y |-> 2]
    /\ polled = <<97>>
    /\ vga[2 * (80 + 79)] = 97
    /\ vga[2 * (80 + 79) + 1] = 7

----------------------------------------------------------------------------
(* Properties of the records and counters of the conversions *)

\* C21: from a starting position on the screen (column < 80, row < 25) every
\* record new_string produces is valid, x < 80 and y < 25, whatever the
\* input bytes, so that write_buffer / write_string_at drop none of them.
C21_EagerRecordsValid ==
    (start_x < 80 /\ start_y < 25) =>
        \A i \in DOMAIN chars : chars[i].x < 80 /\ chars[i].y < 25

\* the same for inputs without a tab byte
C21_ValidWithoutTab ==
    (start_x < 80 /\ start_y < 25 /\ \A i \in DOMAIN buffer : buffer[i] # 9) =>
        \A i \in DOMAIN chars : chars[i].x < 80 /\ chars[i].y < 25

\* the records the step adds to the sequence s
Added(s, t) == {t[i] : i \in (Len(s) + 1) .. Len(t)}

\* C22: in new_string and in chars_from_string, from any starting position,
\* no advance and no new-line step is taken with the u8 counter at 255: the
\* conversion never panics on overflow, no record is emitted at column 255
\* (the advance that follows every record would overflow) and the row never
\* leaves 255 by a new line.
C22_NoCounterOverflow ==
    [][/\ pc \in {"new_string", "chars_from_string"} => pc' # "panic"
       /\ pc \in {"new_string", "chars_from_string"} =>
             \A r \in Added(chars, chars') \cup Added(lazy_out, lazy_out') : r.x < 255
       /\ (pc \in {"new_string", "chars_from_string"} /\ position.y = 255) =>
             position'.y = 255]_vars

\* the row counter alone: no new line is taken at row 255
C22_RowNeverOverflows ==
    [][/\ (pc \in {"new_string", "chars_from_string"} /\ position.y = 255) =>
             position'.y = 255]_vars

====
